---- MODULE Spec2Model ----
(***************************************************************************)
(* Model of resolver/bootstrap.go of blocky: the IPSet round-robin cursor, *)
(* the Bootstrap (construction, upstream lookup, resolve/resolveType) and  *)
(* the ConditionalUpstreamResolver (suffix matching, question rewriting).  *)
(* Three specifications share the module, one per component:               *)
(*   SpecIPSet, SpecBoot, SpecCond.                                        *)
(***************************************************************************)
EXTENDS Integers, Sequences, FiniteSets, TLC

\* ------------------------------------------------------------------ bounds
MaxIPs == 3
NumProcs == 2

VARIABLES
  \* IPSet (type IPSet struct)
  values,      \* IPSet.values: the address list, fixed after newIPSet
  index,       \* IPSet.index: the cursor
  pc,          \* per goroutine: position inside Next()
  oldIP,       \* per goroutine: local oldIP of Next()
  newIP,       \* per goroutine: local newIP of Next()
  lastCur,     \* the value returned by the latest Current() call
  \* Bootstrap (type Bootstrap struct) and the calls in flight on it
  cfg,         \* cfg.BootstrapDNS handed to NewBootstrap
  built,       \* NewBootstrap has returned
  bInst,       \* the *Bootstrap NewBootstrap returned: "nil" or "b"
  bResolver,   \* Bootstrap.resolver: "nil" or "chain"
  bootstraped, \* Bootstrap.bootstraped: resolver instance -> hardcoded IPs
  nbErr,       \* the error NewBootstrap returned
  op,          \* the call in flight on the Bootstrap (its name and arguments)
  stack,       \* the frames of resolve / chain Resolve calls in flight
  calls,       \* collaborator calls made by the call in flight
  lastUp,      \* the latest UpstreamIPs call: its resolver, path and result
  res,         \* what the latest finished call returned
  dial,        \* the latest dial through the HTTP transport
  ctxDone,     \* the caller of the call in flight has cancelled its context
  \* ConditionalUpstreamResolver and the latest Resolve call on it
  ccfg,        \* cfg.Mapping.Upstreams: the configured domains
  cbuilt,      \* NewConditionalUpstreamResolver has returned
  cInst,       \* the resolver it returned: "nil" or "r"
  mapping,     \* ConditionalUpstreamResolver.mapping: domain -> sub-pipeline
  creq,        \* the caller's request: request.Req.Question[0].Name
  cres,        \* the latest Resolve call: its argument, calls and result
  \* the dial hook's choice of record types, on its own
  connectIPVersion,  \* config.GetConfig().ConnectIPVersion
  network,           \* the network string of the dial
  hookQTypes         \* the hook's local qTypes, unset before the switch

ipsVars == <<values, index, pc, oldIP, newIP, lastCur>>

bootVars == <<cfg, built, bInst, bResolver, bootstraped, nbErr, op, stack,
              calls, lastUp, res, dial, ctxDone>>

condVars == <<ccfg, cbuilt, cInst, mapping, creq, cres>>

dqVars == <<connectIPVersion, network, hookQTypes>>

vars == <<ipsVars, bootVars, condVars, dqVars>>

Procs == 1 .. NumProcs

None == "none"
Panic == "panic"
\* "no value read yet" for the integer locals of Next()
Unread == 0 - 1

\* ------------------------------------------------- values shared by the parts

\* a nil error
NilErr == [kind |-> "nil", errs |-> <<>>]

NoOp == [name |-> "none", host |-> "", rid |-> 0, qTypes |-> <<>>]

NoCalls == [chain |-> 0, sys |-> 0]

NoUp == [rid |-> 0, host |-> "", path |-> "none", done |-> FALSE,
         ips |-> <<>>, err |-> NilErr]

NoRes == [op |-> "none", ips |-> <<>>, isNil |-> TRUE, err |-> NilErr,
          log |-> <<>>]

NoDial == [addr |-> <<>>, hooked |-> FALSE,
           host |-> "", port |-> "", qTypes |-> <<>>, resolves |-> 0,
           rIps |-> <<>>, rErr |-> NilErr, conns |-> <<>>, done |-> FALSE,
           err |-> NilErr]

\* the Bootstrap part at rest, for the specifications of the other parts
IdleBoot ==
  /\ cfg = <<>>
  /\ built = FALSE
  /\ bInst = "nil"
  /\ bResolver = "nil"
  /\ bootstraped = <<>>
  /\ nbErr = NilErr
  /\ op = NoOp
  /\ stack = <<>>
  /\ calls = NoCalls
  /\ lastUp = NoUp
  /\ res = NoRes
  /\ dial = NoDial
  /\ ctxDone = FALSE

\* a nil *model.Response
NilResp == [isNil |-> TRUE, question |-> <<>>, reason |-> "", rtype |-> ""]

NoCRes == [called |-> FALSE, name |-> <<>>, matched |-> <<>>, invoked |-> <<>>,
           resp |-> NilResp, err |-> "",
           out |-> [err |-> "", q |-> "none", reason |-> ""]]

\* the ConditionalUpstreamResolver part at rest
IdleCond ==
  /\ ccfg = {}
  /\ cbuilt = FALSE
  /\ cInst = "nil"
  /\ mapping = <<>>
  /\ creq = <<>>
  /\ cres = NoCRes

NoQTypes == [set |-> FALSE, types |-> <<>>]

\* the record type choice at rest
IdleDialQ ==
  /\ connectIPVersion = "dual"
  /\ network = <<>>
  /\ hookQTypes = NoQTypes

\* the IPSet part at rest, for the specifications of the other parts
IdleIPSet ==
  /\ values = <<>>
  /\ index = 0
  /\ pc = <<>>
  /\ oldIP = <<>>
  /\ newIP = <<>>
  /\ lastCur = "none"

\* ===================================================================== IPSet

\* newIPSet(ips): values = ips, index = 0 (zero value)
newIPSet(ips) == [values |-> ips, index |-> 0]

\* net.IP values, by name
AllIPs == <<"ip1", "ip2", "ip3", "ip4", "ip5", "ip6">>

\* the address lists the model builds IPSets from: n distinct addresses
IPLists == { SubSeq(AllIPs, 1, n) : n \in 1 .. MaxIPs }

\* ips.values[idx]: Go panics on an index out of range
IndexValues(vals, idx) ==
  IF idx >= 0 /\ idx < Len(vals) THEN vals[idx + 1] ELSE Panic

\* mutant: the advance without the modulo
NextNewIP_NoModulo(x, n) == x + 1

\* uint32(int(ips.index+1) % len(ips.values)).  The uint32 addition wraps only
\* at index = 2^32 - 1, which needs 2^32 addresses: x < n keeps it exact.
NextNewIP(x, n) == (x + 1) % n

InitIPSet ==
  /\ \E ips \in IPLists :
       /\ values = newIPSet(ips).values
       /\ index = newIPSet(ips).index
  /\ pc = [p \in Procs |-> "idle"]
  /\ oldIP = [p \in Procs |-> Unread]
  /\ newIP = [p \in Procs |-> Unread]
  /\ lastCur = None
  /\ IdleBoot
  /\ IdleCond
  /\ IdleDialQ

\* Current(): atomic load of the cursor, then values[idx]
Current(p) ==
  /\ pc[p] = "idle"
  /\ lastCur' = IndexValues(values, index)
  /\ UNCHANGED <<values, index, pc, oldIP, newIP>>
  /\ UNCHANGED <<bootVars, condVars, dqVars>>

\* Next(), entry: the goroutine starts a call
NextCall(p) ==
  /\ pc[p] = "idle"
  /\ pc' = [pc EXCEPT ![p] = "readOld"]
  /\ oldIP' = [oldIP EXCEPT ![p] = Unread]
  /\ newIP' = [newIP EXCEPT ![p] = Unread]
  /\ UNCHANGED <<values, index, lastCur>>
  /\ UNCHANGED <<bootVars, condVars, dqVars>>

\* oldIP := ips.index  -- a plain (non-atomic) read of the cursor
NextReadOld(p) ==
  /\ pc[p] = "readOld"
  /\ oldIP' = [oldIP EXCEPT ![p] = index]
  /\ pc' = [pc EXCEPT ![p] = "readNew"]
  /\ UNCHANGED <<values, index, newIP, lastCur>>
  /\ UNCHANGED <<bootVars, condVars, dqVars>>

\* newIP := uint32(int(ips.index+1) % len(ips.values)) -- a second plain read
\* of the cursor.  Both plain reads race with the CAS of other goroutines: each
\* observes whatever value the cursor holds when it runs.
NextReadNew(p) ==
  /\ pc[p] = "readNew"
  /\ newIP' = [newIP EXCEPT ![p] = NextNewIP(index, Len(values))]
  /\ pc' = [pc EXCEPT ![p] = "cas"]
  /\ UNCHANGED <<values, index, oldIP, lastCur>>
  /\ UNCHANGED <<bootVars, condVars, dqVars>>

\* _ = atomic.CompareAndSwapUint32(&ips.index, oldIP, newIP); return
NextCAS(p) ==
  /\ pc[p] = "cas"
  /\ index' = IF index = oldIP[p] THEN newIP[p] ELSE index
  /\ pc' = [pc EXCEPT ![p] = "idle"]
  /\ UNCHANGED <<values, oldIP, newIP, lastCur>>
  /\ UNCHANGED <<bootVars, condVars, dqVars>>

NextIPSet ==
  \E p \in Procs :
    \/ Current(p)
    \/ NextCall(p)
    \/ NextReadOld(p)
    \/ NextReadNew(p)
    \/ NextCAS(p)

SpecIPSet == InitIPSet /\ [][NextIPSet]_vars

\* -------------------------------------------------------------- claims C1-C2

\* C1: for a non-empty IPSet of size n, under every interleaving of Next() and
\* Current() calls, 0 <= cursor < n, and Current() returns an element of the
\* original address list (it never indexes out of range).
C1_CursorInRange ==
  /\ index \in 0 .. (Len(values) - 1)
  /\ lastCur # Panic
  /\ lastCur # None => \E i \in 1 .. Len(values) : values[i] = lastCur

\* C1 witness: the cursor has wrapped round to 0 in a set of three addresses
\* and Current() returned the last address before.
C1_Witness ==
  /\ Len(values) = 3
  /\ index = 0
  /\ lastCur = values[3]

\* C2 (as claimed): every change of the cursor is a single forward step
\* modulo the set size.
C2_SingleForwardStep ==
  [][index' = index \/ index' = (index + 1) % Len(values)]_vars

\* ================================================================= Bootstrap

\* bounds of the Bootstrap part
MaxEntries == 2
MaxAnswer == 2
MaxStack == 4

\* config.NetProtocol: tcp+udp is the zero value
NetProtocolTcpUdp == "tcp+udp"

\* net.ParseIP answers nil for a string that is no IP literal
NilIP == "nil"

\* net.ParseIP on the host strings of the model
ParseIP(host) ==
  CASE host = "10.0.0.1" -> "ip1"
    [] host = "10.0.0.2" -> "ip2"
    [] OTHER -> NilIP

\* config.Upstream: the zero value is the unconfigured placeholder
DefaultUpstream == [net |-> NetProtocolTcpUdp, host |-> ""]

IsDefault(upstream) == upstream = DefaultUpstream

\* the bootstrap entries (config.BootstrappedUpstreamConfig) configs draw from
Entries ==
  { [upstream |-> DefaultUpstream, ips |-> <<>>],
    [upstream |-> [net |-> NetProtocolTcpUdp, host |-> "10.0.0.1"], ips |-> <<>>],
    [upstream |-> [net |-> NetProtocolTcpUdp, host |-> "10.0.0.1"], ips |-> <<"ip3">>],
    [upstream |-> [net |-> NetProtocolTcpUdp, host |-> "dns.example"], ips |-> <<>>],
    [upstream |-> [net |-> "https", host |-> "dns.example"], ips |-> <<"ip2", "ip3">>],
    [upstream |-> [net |-> "https", host |-> "dns.example"], ips |-> <<>>] }

Configs == UNION { [1 .. n -> Entries] : n \in 0 .. MaxEntries }

\* v4v6QTypes
v4v6QTypes == <<"A", "AAAA">>

\* the record type lists resolve is called with
QTypeLists == { <<"A">>, <<"AAAA">>, v4v6QTypes }

\* dns.RcodeSuccess
RcodeSuccess == "NOERROR"

\* ------------------------------------------------- newBootstrapedResolvers

ItemErr(i, kind) == [item |-> i, kind |-> kind]

\* a variant that accepts an empty IP list for the other protocols
EntryResult_NoIPCheck(i, e) ==
  IF IsDefault(e.upstream)
    THEN [ok |-> FALSE, err |-> ItemErr(i, "upstream not configured"), ips |-> <<>>]
  ELSE IF e.upstream.net = NetProtocolTcpUdp
    THEN IF ParseIP(e.upstream.host) = NilIP
           THEN [ok |-> FALSE, err |-> ItemErr(i, "must use IP instead of hostname"),
                 ips |-> <<>>]
           ELSE [ok |-> TRUE, err |-> ItemErr(i, ""), ips |-> <<ParseIP(e.upstream.host)>>]
  ELSE [ok |-> TRUE, err |-> ItemErr(i, ""), ips |-> e.ips]

\* one iteration of the loop: the error appended, or the IPs registered
EntryResult(i, e) ==
  IF IsDefault(e.upstream)
    THEN [ok |-> FALSE, err |-> ItemErr(i, "upstream not configured"), ips |-> <<>>]
  ELSE IF e.upstream.net = NetProtocolTcpUdp
    THEN IF ParseIP(e.upstream.host) = NilIP
           THEN [ok |-> FALSE, err |-> ItemErr(i, "must use IP instead of hostname"),
                 ips |-> <<>>]
           ELSE [ok |-> TRUE, err |-> ItemErr(i, ""), ips |-> <<ParseIP(e.upstream.host)>>]
  ELSE IF Len(e.ips) = 0
    THEN [ok |-> FALSE, err |-> ItemErr(i, "requires IPs to be set"), ips |-> <<>>]
    ELSE [ok |-> TRUE, err |-> ItemErr(i, ""), ips |-> e.ips]

\* mutant: the loop stops at the first invalid entry (break for continue)
RECURSIVE BootstrapedLoop_Break(_, _, _, _)
BootstrapedLoop_Break(c, i, upstreamIPs, multiErr) ==
  IF i > Len(c) THEN [upstreamIPs |-> upstreamIPs, multiErr |-> multiErr]
  ELSE LET r == EntryResult(i, c[i]) IN
       IF r.ok
         THEN BootstrapedLoop_Break(c, i + 1,
                [j \in DOMAIN upstreamIPs \cup {i} |->
                   IF j = i THEN r.ips ELSE upstreamIPs[j]],
                multiErr)
         ELSE [upstreamIPs |-> upstreamIPs, multiErr |-> Append(multiErr, r.err)]

\* for i, upstreamCfg := range cfg { ... }: entry i either appends one error to
\* multiErr and continues, or registers a new resolver instance (its identity
\* is the entry's index, 1-based) with its IPs
RECURSIVE BootstrapedLoop(_, _, _, _)
BootstrapedLoop(c, i, upstreamIPs, multiErr) ==
  IF i > Len(c) THEN [upstreamIPs |-> upstreamIPs, multiErr |-> multiErr]
  ELSE LET r == EntryResult(i, c[i]) IN
       IF r.ok
         THEN BootstrapedLoop(c, i + 1,
                [j \in DOMAIN upstreamIPs \cup {i} |->
                   IF j = i THEN r.ips ELSE upstreamIPs[j]],
                multiErr)
         ELSE BootstrapedLoop(c, i + 1, upstreamIPs, Append(multiErr, r.err))

\* newBootstrapedResolvers(b, cfg): (nil, error) if any error was recorded
newBootstrapedResolvers(c) ==
  LET l == BootstrapedLoop(c, 1, <<>>, <<>>) IN
    IF l.multiErr # <<>>
      THEN [upstreamIPs |-> <<>>,
            err |-> [kind |-> "invalid bootstrapDns configuration", errs |-> l.multiErr]]
      ELSE [upstreamIPs |-> l.upstreamIPs, err |-> NilErr]

\* NewBootstrap(cfg); pbOK: whether newParallelBestResolver succeeded
NewBootstrapResult(c, pbOK) ==
  LET n == newBootstrapedResolvers(c) IN
    IF n.err # NilErr
      THEN [b |-> "nil", resolver |-> "nil", bootstraped |-> <<>>, err |-> n.err]
    ELSE IF Cardinality(DOMAIN n.upstreamIPs) = 0
      THEN [b |-> "b", resolver |-> "nil", bootstraped |-> <<>>, err |-> NilErr]
    ELSE IF ~pbOK
      THEN [b |-> "nil", resolver |-> "nil", bootstraped |-> <<>>,
            err |-> [kind |-> "could not create bootstrap ParallelBestResolver",
                     errs |-> <<>>]]
    ELSE [b |-> "b", resolver |-> "chain", bootstraped |-> n.upstreamIPs,
          err |-> NilErr]

InitBoot ==
  /\ cfg \in Configs
  /\ built = FALSE
  /\ bInst = "nil"
  /\ bResolver = "nil"
  /\ bootstraped = <<>>
  /\ nbErr = NilErr
  /\ op = NoOp
  /\ stack = <<>>
  /\ calls = NoCalls
  /\ lastUp = NoUp
  /\ res = NoRes
  /\ dial = NoDial
  /\ ctxDone = FALSE
  /\ IdleIPSet
  /\ IdleCond
  /\ IdleDialQ

NewBootstrap ==
  /\ ~built
  /\ \E pbOK \in BOOLEAN :
       LET r == NewBootstrapResult(cfg, pbOK) IN
         /\ bInst' = r.b
         /\ bResolver' = r.resolver
         /\ bootstraped' = r.bootstraped
         /\ nbErr' = r.err
  /\ built' = TRUE
  /\ UNCHANGED <<cfg, op, stack, calls, lastUp, res, dial, ctxDone>>
  /\ UNCHANGED <<ipsVars, condVars, dqVars>>

\* ------------------------------------------- resolve, resolveType, UpstreamIPs

\* an upstream resolver, as UpstreamIPs sees it: its identity and r.upstream.Host.
\* The instances NewBootstrap registered have the identities 1..len(cfg); identity
\* 0 is an upstream resolver built elsewhere (possibly from an equal Upstream).
UpstreamResolvers ==
  { [id |-> i, host |-> cfg[i].upstream.host] : i \in DOMAIN bootstraped }
  \cup { [id |-> 0, host |-> h] : h \in {"10.0.0.2", "dns.example", "other.example"} }

\* the errors the chain's Resolve returns
ChainErrs == {"timeout", "refused"}

\* the resource records an answer section holds
RRs == { [type |-> "A", ip |-> "ip4"], [type |-> "AAAA", ip |-> "ip6"],
         [type |-> "CNAME", ip |-> ""] }

Answers == UNION { [1 .. n -> RRs] : n \in 0 .. MaxAnswer }

\* what b.resolver.Resolve(&req) returns: an error, or a response
ChainOutcomes ==
  { [err |-> e, rcode |-> "", answer |-> <<>>] : e \in ChainErrs }
  \cup { [err |-> "", rcode |-> rc, answer |-> a] :
           rc \in {RcodeSuccess, "NXDOMAIN"}, a \in Answers }

\* what systemResolver.LookupIP returns: an error, or the addresses found
SysOutcomes ==
  { [ips |-> <<>>, err |-> [kind |-> "lookup", errs |-> <<>>]],
    [ips |-> <<"ip4">>, err |-> NilErr],
    [ips |-> <<"ip4", "ip6">>, err |-> NilErr] }

\* no response received (yet)
NoRsp == [err |-> "", rcode |-> "", answer |-> <<>>]

IsAddrRR(rr) == rr.type \in {"A", "AAAA"}

\* for _, a := range rsp.Res.Answer { switch rr := a.(type) { case *dns.A, *dns.AAAA } }
RECURSIVE AnswerIPs(_)
AnswerIPs(answer) ==
  IF answer = <<>> THEN <<>>
  ELSE (IF IsAddrRR(Head(answer)) THEN <<Head(answer).ip>> ELSE <<>>)
       \o AnswerIPs(Tail(answer))

\* a variant that reads the answer section whatever the rcode
resolveTypeResult_IgnoreRcode(o) ==
  IF o.err # "" THEN [ips |-> <<>>, err |-> o.err]
  ELSE [ips |-> AnswerIPs(o.answer), err |-> ""]

\* resolveType after b.resolver.Resolve returned o (a non-literal hostname)
resolveTypeResult(o) ==
  IF o.err # "" THEN [ips |-> <<>>, err |-> o.err]
  ELSE IF o.rcode # RcodeSuccess THEN [ips |-> <<>>, err |-> ""]
  ELSE [ips |-> AnswerIPs(o.answer), err |-> ""]

NoSuchHost(hostname) == [kind |-> "no such host", errs |-> <<hostname>>]

MultiErr(errs) == [kind |-> "multierror", errs |-> errs]

\* mutant: resolve without the "no such host" check
resolveReturn_NoCheck(hostname, ips, errs) ==
  [ips |-> ips, err |-> IF errs = <<>> THEN NilErr ELSE MultiErr(errs)]

\* resolve, after the loop: if err == nil && len(ips) == 0 { return nil, no such host };
\* return (the named results ips and err, both as the loop left them)
resolveReturn(hostname, ips, errs) ==
  IF errs = <<>> /\ Len(ips) = 0
    THEN [ips |-> <<>>, err |-> NoSuchHost(hostname)]
    ELSE [ips |-> ips, err |-> IF errs = <<>> THEN NilErr ELSE MultiErr(errs)]

\* mutant: resolveUpstream without the lookup in b.bootstraped
resolveUpstreamPath_NoShortCircuit(resolver, boots, rid) ==
  IF resolver = "nil" THEN "system" ELSE "resolve"

\* a variant without the check for a nil resolver
resolveUpstreamPath_NoNilCheck(resolver, boots, rid) ==
  IF rid \in DOMAIN boots THEN "bootstraped" ELSE "resolve"

\* resolveUpstream: which way the lookup goes
resolveUpstreamPath(resolver, boots, rid) ==
  IF resolver = "nil" THEN "system"
  ELSE IF rid \in DOMAIN boots THEN "bootstraped"
  ELSE "resolve"

\* a variant that sends a literal host to resolveUpstream too
UpstreamIPsPath_NoLiteral(r) == resolveUpstreamPath(bResolver, bootstraped, r.id)

\* UpstreamIPs: a literal host never reaches resolveUpstream
UpstreamIPsPath(r) ==
  IF ParseIP(r.host) # NilIP THEN "literal"
  ELSE resolveUpstreamPath(bResolver, bootstraped, r.id)

\* rid: the upstream resolver whose UpstreamIPs call runs this resolve (0: none)
ResolveFrame(rid, hostname, qTypes) ==
  [fn |-> "resolve", rid |-> rid, host |-> hostname, qTypes |-> qTypes, i |-> 1,
   ips |-> <<>>, errs |-> <<>>, log |-> <<>>, rsp |-> NoRsp]

\* resolveType(hostname, qType) inside b.resolver.Resolve(&req): req holds the one
\* question (hostname, qType); fn becomes "rt" once the chain has returned rsp
ChainFrame(hostname, qType) ==
  [fn |-> "chain", rid |-> 0, host |-> hostname, qTypes |-> <<qType>>, i |-> 1,
   ips |-> <<>>, errs |-> <<>>, log |-> <<>>, rsp |-> NoRsp]

Top == stack[Len(stack)]

Pop(st) == SubSeq(st, 1, Len(st) - 1)

\* what UpstreamIPs(r) returns without resolving through the chain
UpstreamIPsNow(r, path, sys) ==
  [rid |-> r.id, host |-> r.host, path |-> path, done |-> TRUE,
   ips |-> CASE path = "literal" -> <<ParseIP(r.host)>>
             [] path = "system" -> sys.ips
             [] OTHER -> bootstraped[r.id],
   err |-> IF path = "system" THEN sys.err ELSE NilErr]

\* a variant that wraps the addresses whatever the error
UpstreamIPsRes_IgnoreErr(ips, err) ==
  [op |-> "UpstreamIPs", ips |-> newIPSet(ips).values, isNil |-> FALSE,
   err |-> NilErr, log |-> <<>>]

\* UpstreamIPs' own return: (nil, err) on an error, else newIPSet(ips)
UpstreamIPsRes(ips, err) ==
  IF err # NilErr
    THEN [op |-> "UpstreamIPs", ips |-> <<>>, isNil |-> TRUE, err |-> err, log |-> <<>>]
    ELSE [op |-> "UpstreamIPs", ips |-> newIPSet(ips).values, isNil |-> FALSE,
          err |-> NilErr, log |-> <<>>]

\* ------------------------------------------------ NewHTTPTransport, DialContext

\* config.IPVersion
IPVersionDual == "dual"

IPVersions == {IPVersionDual, "v4", "v6"}

\* connectIPVersion.QTypes(): the record types of the configured family
IPVersionQTypes(v) ==
  CASE v = "v4" -> <<"A">>
    [] v = "v6" -> <<"AAAA">>
    [] OTHER -> v4v6QTypes

\* the network strings a dial is made with, as sequences of characters
Networks == { <<"t", "c", "p">>, <<"t", "c", "p", "4">>, <<"t", "c", "p", "6">> }

\* strings.HasSuffix(s, c) for a one-character suffix
HasSuffix(s, c) == Len(s) > 0 /\ s[Len(s)] = c

\* a variant that looks at the network string before the configured version
DialQTypes_NetworkFirst(version, netw) ==
  IF HasSuffix(netw, "4") THEN <<"A">>
  ELSE IF HasSuffix(netw, "6") THEN <<"AAAA">>
  ELSE IPVersionQTypes(version)

\* the switch of the dial hook that chooses qTypes
DialQTypes(version, netw) ==
  IF version # IPVersionDual THEN IPVersionQTypes(version)
  ELSE IF HasSuffix(netw, "4") THEN <<"A">>
  ELSE IF HasSuffix(netw, "6") THEN <<"AAAA">>
  ELSE v4v6QTypes

\* the choice on its own, for every configured version and network string
MaxNetLen == 3

NetChars == {"t", "4", "6"}

NetworkStrings == UNION { [1 .. n -> NetChars] : n \in 0 .. MaxNetLen }

InitDialQ ==
  /\ connectIPVersion \in IPVersions
  /\ network \in NetworkStrings
  /\ hookQTypes = NoQTypes
  /\ IdleIPSet
  /\ IdleBoot
  /\ IdleCond

\* the switch runs
SelectQTypes ==
  /\ hookQTypes = NoQTypes
  /\ hookQTypes' = [set |-> TRUE, types |-> DialQTypes(connectIPVersion, network)]
  /\ UNCHANGED <<connectIPVersion, network>>
  /\ UNCHANGED <<ipsVars, bootVars, condVars>>

NextDialQ == SelectQTypes

SpecDialQ == InitDialQ /\ [][NextDialQ]_vars

\* the addresses a dial is made with, as sequences of tokens: host, ":", port
DialAddrs ==
  { <<"dns.example", ":", "443">>, <<"10.0.0.1", ":", "53">>, <<"dns.example">> }

\* net.SplitHostPort(addr)
SplitHostPort(addr) ==
  IF Len(addr) = 3 /\ addr[2] = ":"
    THEN [host |-> addr[1], port |-> addr[3], err |-> NilErr]
    ELSE [host |-> "", port |-> "", err |-> [kind |-> "missing port in address",
                                             errs |-> <<>>]]

\* net.JoinHostPort(ip.String(), port)
JoinHostPort(ip, port) == <<ip, ":", port>>

\* NewHTTPTransport: without a resolver the transport has no DialContext hook
NewHTTPTransport(resolver) == IF resolver = "nil" THEN "plain" ELSE "hooked"

\* what dialer.DialContext(ctx, network, addrWithIP) returns as its error
DialErrs(done) ==
  IF done THEN { [kind |-> "context canceled", errs |-> <<>>] }
  ELSE { NilErr, [kind |-> "connection refused", errs |-> <<>>] }

\* a variant of the hook that looks at the addresses only, not at the error
DialHookReturn_IgnoreErr(d, out, k, dialErr) ==
  IF Len(out.ips) = 0
    THEN [d EXCEPT !.rIps = out.ips, !.rErr = out.err, !.done = TRUE,
                   !.err = out.err]
    ELSE [d EXCEPT !.rIps = out.ips, !.rErr = out.err, !.done = TRUE,
                   !.conns = Append(@, JoinHostPort(out.ips[k], d.port)),
                   !.err = dialErr]

\* the dial hook after b.resolve returned out: an error is returned as it is,
\* else ips[rand.Intn(len(ips))] (the k-th address) is dialed with the port;
\* rand.Intn(0) panics
DialHookReturn(d, out, k, dialErr) ==
  IF out.err # NilErr
    THEN [d EXCEPT !.rIps = out.ips, !.rErr = out.err, !.done = TRUE,
                   !.err = out.err]
  ELSE IF Len(out.ips) = 0
    THEN [d EXCEPT !.rIps = out.ips, !.rErr = out.err, !.done = TRUE,
                   !.err = [kind |-> Panic, errs |-> <<>>]]
    ELSE [d EXCEPT !.rIps = out.ips, !.rErr = out.err, !.done = TRUE,
                   !.conns = Append(@, JoinHostPort(out.ips[k], d.port)),
                   !.err = dialErr]

\* what a finished dial hands to the transport: (conn, err)
DialRes(d, log) ==
  [op |-> "dial", ips |-> <<>>, isNil |-> (d.err # NilErr), err |-> d.err,
   log |-> log]

\* b.UpstreamIPs(r), called from outside the Bootstrap. No call changes a field
\* of the Bootstrap, so a behaviour follows one call from outside (op = NoOp)
CallUpstreamIPs(r) ==
  /\ built /\ bInst = "b" /\ stack = <<>> /\ op = NoOp
  /\ op' = [name |-> "UpstreamIPs", host |-> r.host, rid |-> r.id, qTypes |-> <<>>]
  /\ LET path == UpstreamIPsPath(r) IN
       IF path = "resolve"
         THEN /\ stack' = <<ResolveFrame(r.id, r.host, v4v6QTypes)>>
              /\ lastUp' = [rid |-> r.id, host |-> r.host, path |-> path,
                            done |-> FALSE, ips |-> <<>>, err |-> NilErr]
              /\ calls' = NoCalls
              /\ res' = NoRes
         ELSE \E sys \in SysOutcomes :
                LET u == UpstreamIPsNow(r, path, sys) IN
                  /\ stack' = <<>>
                  /\ lastUp' = u
                  /\ calls' = [chain |-> 0, sys |-> IF path = "system" THEN 1 ELSE 0]
                  /\ res' = UpstreamIPsRes(u.ips, u.err)
  /\ dial' = NoDial
  /\ ctxDone' = FALSE
  /\ UNCHANGED <<cfg, built, bInst, bResolver, bootstraped, nbErr>>
  /\ UNCHANGED <<ipsVars, condVars, dqVars>>

\* b.resolve(hostname, qTypes), called directly (resolveUpstream and the dial
\* hook call it only with b.resolver set)
CallResolve(hostname, qTypes) ==
  /\ built /\ bInst = "b" /\ stack = <<>> /\ op = NoOp
  /\ op' = [name |-> "resolve", host |-> hostname, rid |-> 0, qTypes |-> qTypes]
  /\ stack' = <<ResolveFrame(0, hostname, qTypes)>>
  /\ calls' = NoCalls
  /\ lastUp' = NoUp
  /\ res' = NoRes
  /\ dial' = NoDial
  /\ ctxDone' = FALSE
  /\ UNCHANGED <<cfg, built, bInst, bResolver, bootstraped, nbErr>>
  /\ UNCHANGED <<ipsVars, condVars, dqVars>>

\* a dial through the transport NewHTTPTransport returned. The plain transport
\* (no resolver) dials addr itself; the hooked one splits addr, chooses qTypes
\* and enters b.resolve(host, qTypes)
CallDial(version, netw, addr) ==
  /\ built /\ bInst = "b" /\ stack = <<>> /\ op = NoOp
  /\ op' = [name |-> "dial", host |-> SplitHostPort(addr).host, rid |-> 0,
            qTypes |-> <<>>]
  /\ calls' = NoCalls
  /\ lastUp' = NoUp
  /\ ctxDone' = FALSE
  /\ LET d == [NoDial EXCEPT !.addr = addr]
         sp == SplitHostPort(addr) IN
       IF NewHTTPTransport(bResolver) = "plain"
         THEN \E dialErr \in DialErrs(FALSE) :
                /\ dial' = [d EXCEPT !.conns = <<addr>>, !.done = TRUE,
                                     !.err = dialErr]
                /\ res' = DialRes(dial', <<>>)
                /\ stack' = <<>>
       ELSE IF sp.err # NilErr
         THEN /\ dial' = [d EXCEPT !.hooked = TRUE, !.done = TRUE, !.err = sp.err]
              /\ res' = DialRes(dial', <<>>)
              /\ stack' = <<>>
         ELSE /\ dial' = [d EXCEPT !.hooked = TRUE, !.host = sp.host,
                                   !.port = sp.port,
                                   !.qTypes = DialQTypes(version, netw),
                                   !.resolves = 1]
              /\ res' = NoRes
              /\ stack' = <<ResolveFrame(0, sp.host, dial'.qTypes)>>
  /\ UNCHANGED <<cfg, built, bInst, bResolver, bootstraped, nbErr>>
  /\ UNCHANGED <<ipsVars, condVars, dqVars>>

\* the caller of the dial (or of the upstream lookup) in flight cancels its context
Cancel ==
  /\ stack # <<>>
  /\ op.name \in {"dial", "UpstreamIPs"}
  /\ ~ctxDone
  /\ ctxDone' = TRUE
  /\ UNCHANGED <<cfg, built, bInst, bResolver, bootstraped, nbErr, op, stack,
                 calls, lastUp, res, dial>>
  /\ UNCHANGED <<ipsVars, condVars, dqVars>>

\* one iteration of resolve's loop up to resolveType's call of the chain:
\* a literal hostname is returned at once, else b.resolver.Resolve is entered
ResolveType ==
  /\ stack # <<>>
  /\ Top.fn = "resolve"
  /\ Top.i <= Len(Top.qTypes)
  /\ IF ParseIP(Top.host) # NilIP
       THEN /\ stack' = [stack EXCEPT ![Len(stack)] =
                 [@ EXCEPT !.ips = @ \o <<ParseIP(Top.host)>>,
                           !.i = @ + 1,
                           !.log = Append(@, [err |-> "", ips |-> <<ParseIP(Top.host)>>])]]
            /\ UNCHANGED <<calls, res>>
       ELSE IF bResolver = "nil"
         THEN \* a call on the nil Resolver interface: the goroutine panics
              \* and the call in flight returns nothing
              /\ stack' = <<>>
              /\ res' = [op |-> Panic, ips |-> <<>>, isNil |-> TRUE,
                         err |-> [kind |-> "panic", errs |-> <<>>], log |-> <<>>]
              /\ UNCHANGED calls
         ELSE /\ Len(stack) < MaxStack
              /\ stack' = Append(stack, ChainFrame(Top.host, Top.qTypes[Top.i]))
              /\ calls' = [calls EXCEPT !.chain = @ + 1]
              /\ UNCHANGED res
  /\ UNCHANGED <<cfg, built, bInst, bResolver, bootstraped, nbErr, op, lastUp,
                 dial, ctxDone>>
  /\ UNCHANGED <<ipsVars, condVars, dqVars>>

\* inside the chain's Resolve: the upstream resolver `id` of the bootstrap group
\* asks the Bootstrap for its own addresses, b.UpstreamIPs(self)
ChainUpstreamIPs(id) ==
  /\ stack # <<>>
  /\ Top.fn = "chain"
  /\ id \in DOMAIN bootstraped
  /\ LET r == [id |-> id, host |-> cfg[id].upstream.host]
         path == UpstreamIPsPath(r) IN
       IF path = "resolve"
         THEN /\ Len(stack) < MaxStack
              /\ stack' = Append(stack, ResolveFrame(r.id, r.host, v4v6QTypes))
              /\ lastUp' = [rid |-> r.id, host |-> r.host, path |-> path,
                            done |-> FALSE, ips |-> <<>>, err |-> NilErr]
              /\ UNCHANGED calls
         ELSE \E sys \in SysOutcomes :
                /\ lastUp' = UpstreamIPsNow(r, path, sys)
                /\ calls' = [calls EXCEPT !.sys = IF path = "system" THEN @ + 1 ELSE @]
                /\ UNCHANGED stack
  /\ UNCHANGED <<cfg, built, bInst, bResolver, bootstraped, nbErr, op, res,
                 dial, ctxDone>>
  /\ UNCHANGED <<ipsVars, condVars, dqVars>>

\* b.resolver.Resolve returns o to resolveType, which maps it to its own
\* results (ips, err)
ChainReturn(o) ==
  /\ stack # <<>>
  /\ Top.fn = "chain"
  /\ LET rt == resolveTypeResult(o) IN
       stack' = [stack EXCEPT ![Len(stack)] =
                   [@ EXCEPT !.fn = "rt", !.rsp = o, !.ips = rt.ips,
                             !.errs = IF rt.err # "" THEN <<rt.err>> ELSE <<>>]]
  /\ UNCHANGED <<cfg, built, bInst, bResolver, bootstraped, nbErr, op, calls,
                 lastUp, res, dial, ctxDone>>
  /\ UNCHANGED <<ipsVars, condVars, dqVars>>

\* resolveType returns to resolve's loop: an error is appended to err,
\* addresses are appended to ips
ResolveTypeReturn ==
  /\ stack # <<>>
  /\ Top.fn = "rt"
  /\ LET f == stack[Len(stack) - 1]
         g == IF Top.errs # <<>>
                THEN [f EXCEPT !.errs = Append(@, Top.errs[1]), !.i = @ + 1,
                               !.log = Append(@, [err |-> Top.errs[1], ips |-> <<>>])]
                ELSE [f EXCEPT !.ips = @ \o Top.ips, !.i = @ + 1,
                               !.log = Append(@, [err |-> "", ips |-> Top.ips])] IN
       stack' = Append(SubSeq(stack, 1, Len(stack) - 2), g)
  /\ UNCHANGED <<cfg, built, bInst, bResolver, bootstraped, nbErr, op, calls,
                 lastUp, res, dial, ctxDone>>
  /\ UNCHANGED <<ipsVars, condVars, dqVars>>

\* resolve returns to its caller: to the outside (resolve called directly), to
\* the dial hook, or through resolveUpstream to UpstreamIPs
ResolveReturn ==
  /\ stack # <<>>
  /\ Top.fn = "resolve"
  /\ Top.i > Len(Top.qTypes)
  /\ LET out == resolveReturn(Top.host, Top.ips, Top.errs) IN
       /\ stack' = Pop(stack)
       /\ IF op.name = "resolve" /\ Len(stack) = 1
            THEN /\ res' = [op |-> "resolve", ips |-> out.ips, isNil |-> FALSE,
                            err |-> out.err, log |-> Top.log]
                 /\ UNCHANGED <<lastUp, dial>>
          ELSE IF op.name = "dial" /\ Len(stack) = 1
            THEN /\ \E k \in (1 .. Len(out.ips)) \cup {1},
                         dialErr \in DialErrs(ctxDone) :
                      dial' = DialHookReturn(dial, out, k, dialErr)
                 /\ res' = DialRes(dial', Top.log)
                 /\ UNCHANGED lastUp
            ELSE /\ UNCHANGED dial
                 /\ lastUp' = [rid |-> Top.rid, host |-> Top.host, path |-> "resolve",
                            done |-> TRUE, ips |-> out.ips, err |-> out.err]
                 /\ res' = IF Len(stack) = 1
                             THEN [UpstreamIPsRes(out.ips, out.err) EXCEPT !.log = Top.log]
                             ELSE res
  /\ UNCHANGED <<cfg, built, bInst, bResolver, bootstraped, nbErr, op, calls,
                 ctxDone>>
  /\ UNCHANGED <<ipsVars, condVars, dqVars>>

NextBoot ==
  \/ NewBootstrap
  \/ \E r \in UpstreamResolvers : CallUpstreamIPs(r)
  \/ \E h \in {"10.0.0.1", "dns.example"}, q \in QTypeLists : CallResolve(h, q)
  \/ \E v \in IPVersions, n \in Networks, a \in DialAddrs : CallDial(v, n, a)
  \/ Cancel
  \/ ResolveType
  \/ \E id \in 1 .. MaxEntries : ChainUpstreamIPs(id)
  \/ \E o \in ChainOutcomes : ChainReturn(o)
  \/ ResolveTypeReturn
  \/ ResolveReturn

SpecBoot == InitBoot /\ [][NextBoot]_vars

\* -------------------------------------------------------------- claims C3-C6

\* the addresses the per-type queries of a finished resolve yielded, in order
RECURSIVE LogIPs(_)
LogIPs(log) == IF log = <<>> THEN <<>> ELSE Head(log).ips \o LogIPs(Tail(log))

\* the errors the per-type queries of a finished resolve returned, in order
RECURSIVE LogErrs(_)
LogErrs(log) ==
  IF log = <<>> THEN <<>>
  ELSE (IF Head(log).err # "" THEN <<Head(log).err>> ELSE <<>>) \o LogErrs(Tail(log))

\* C3 (as claimed): if at least one per-type query of resolve returned a usable
\* address, resolve returns the collected addresses and no error, even when
\* the queries for other record types returned errors.
C3_PartialSuccess ==
  (res.op = "resolve" /\ Len(LogIPs(res.log)) > 0)
    => (res.err = NilErr /\ res.ips = LogIPs(res.log))

\* C4: resolve never reports success with an empty address list; with no
\* address obtained it returns "no such host" when every per-type query
\* returned cleanly with zero records, and the aggregated per-type errors
\* otherwise.
C4_NoEmptySuccess ==
  res.op = "resolve" =>
    /\ res.err = NilErr => Len(res.ips) > 0
    /\ Len(LogIPs(res.log)) = 0 =>
         /\ res.err # NilErr
         /\ res.ips = <<>>
         /\ IF LogErrs(res.log) = <<>>
              THEN res.err = NoSuchHost(op.host)
              ELSE res.err = MultiErr(LogErrs(res.log))

\* C4 witness: resolve(hostname, [A, AAAA]) finished, both queries returned
\* cleanly with zero records, and the result is the "no such host" error.
C4_Witness ==
  /\ res.op = "resolve"
  /\ op.qTypes = v4v6QTypes
  /\ Len(res.log) = 2
  /\ LogErrs(res.log) = <<>>
  /\ LogIPs(res.log) = <<>>
  /\ res.err = NoSuchHost(op.host)

\* the number of chain Resolve calls in flight
ChainDepth == Cardinality({ k \in DOMAIN stack : stack[k].fn = "chain" })

\* C5: with the Bootstrap Ready, UpstreamIPs/resolveUpstream for a registered
\* resolver instance with a non-literal host returns that instance's
\* precomputed addresses, invoking neither the chain nor the system resolver;
\* a chain resolution never starts a nested chain resolution (depth <= 1).
C5_ShortCircuit ==
  /\ ChainDepth <= 1
  /\ (lastUp.path # "none" /\ bResolver # "nil" /\ lastUp.rid \in DOMAIN bootstraped
        /\ ParseIP(lastUp.host) = NilIP)
       => /\ lastUp.path = "bootstraped"
          /\ lastUp.done
          /\ lastUp.err = NilErr
          /\ lastUp.ips = bootstraped[lastUp.rid]
  /\ (op.name = "UpstreamIPs" /\ bResolver # "nil" /\ op.rid \in DOMAIN bootstraped
        /\ ParseIP(op.host) = NilIP)
       => /\ stack = <<>>
          /\ calls = NoCalls
          /\ res.ips = bootstraped[op.rid]
          /\ res.err = NilErr

\* C5 witness: while a chain resolution is in flight, one of the Bootstrap's own
\* upstreams (registered, hostname host) asked for its addresses and got the
\* precomputed list.
C5_Witness ==
  /\ ChainDepth = 1
  /\ lastUp.path = "bootstraped"
  /\ lastUp.rid \in DOMAIN bootstraped
  /\ ParseIP(lastUp.host) = NilIP
  /\ lastUp.ips = <<"ip2", "ip3">>

\* an entry the configuration rules reject
EntryInvalid(e) ==
  \/ e.upstream = DefaultUpstream
  \/ e.upstream.net = NetProtocolTcpUdp /\ e.upstream.host \notin {"10.0.0.1", "10.0.0.2"}
  \/ e.upstream.net # NetProtocolTcpUdp /\ e.ips = <<>>

InvalidItems == { i \in DOMAIN cfg : EntryInvalid(cfg[i]) }

\* C6: if any configured entry is invalid, NewBootstrap validates every entry,
\* collects one error per invalid entry into one aggregated error and returns
\* it with a nil Bootstrap.
C6_AtomicConstruction ==
  (built /\ InvalidItems # {}) =>
    /\ bInst = "nil"
    /\ bResolver = "nil"
    /\ bootstraped = <<>>
    /\ nbErr.kind = "invalid bootstrapDns configuration"
    /\ Len(nbErr.errs) = Cardinality(InvalidItems)
    /\ \A i \in InvalidItems : \E k \in DOMAIN nbErr.errs : nbErr.errs[k].item = i

\* C6 witness: construction failed for two invalid entries, both reported.
C6_Witness ==
  /\ built
  /\ Len(cfg) = 2
  /\ InvalidItems = {1, 2}
  /\ bInst = "nil"
  /\ Len(nbErr.errs) = 2

\* ------------------------------------------------------- claims C12-C18, C20

\* the host strings that are IP literals, and the address each one denotes
LiteralHosts == {"10.0.0.1", "10.0.0.2"}

LiteralIP(h) == IF h = "10.0.0.1" THEN "ip1" ELSE "ip2"

\* C12: for a host that is a literal IP address UpstreamIPs returns a
\* singleton IPSet holding exactly that address, and resolveType returns
\* exactly that address for every requested record type, with the Bootstrap
\* Unconfigured as well as Ready, and neither the system resolver nor the
\* chain is called.
C12_LiteralShortCircuit ==
  /\ (res.op = "UpstreamIPs" /\ op.host \in LiteralHosts) =>
       /\ ~res.isNil
       /\ res.err = NilErr
       /\ res.ips = <<LiteralIP(op.host)>>
       /\ calls = NoCalls
  /\ (lastUp.done /\ lastUp.host \in LiteralHosts) =>
       /\ lastUp.ips = <<LiteralIP(lastUp.host)>>
       /\ lastUp.err = NilErr
       /\ calls.sys = 0
  /\ (res.op = "resolve" /\ op.host \in LiteralHosts) =>
       /\ Len(res.log) = Len(op.qTypes)
       /\ \A k \in DOMAIN res.log :
            res.log[k] = [err |-> "", ips |-> <<LiteralIP(op.host)>>]
       /\ calls = NoCalls

\* resolve("10.0.0.1", [A, AAAA]) on an Unconfigured Bootstrap returned the
\* literal once per record type
C12_Witness ==
  /\ bInst = "b"
  /\ bResolver = "nil"
  /\ res.op = "resolve"
  /\ op.host = "10.0.0.1"
  /\ res.ips = <<"ip1", "ip1">>
  /\ calls = NoCalls

\* C13: UpstreamIPs returns an error, or an IPSet with at least one address;
\* a resolution that yields zero addresses ends in an error.
C13_NoEmptyIPSet ==
  res.op = "UpstreamIPs" =>
    /\ \/ res.isNil /\ res.err # NilErr
       \/ ~res.isNil /\ res.err = NilErr /\ Len(res.ips) >= 1
    /\ Len(lastUp.ips) = 0 => (res.isNil /\ res.err # NilErr)

\* an upstream lookup through the chain found no address and failed
C13_Witness ==
  /\ res.op = "UpstreamIPs"
  /\ lastUp.path = "resolve"
  /\ Len(LogIPs(res.log)) = 0
  /\ res.isNil
  /\ res.err = NoSuchHost(op.host)

\* C14: after NewBootstrap succeeded the resolver is nil exactly if no entry
\* was configured, and then nothing is registered; with a nil resolver every
\* hostname lookup of UpstreamIPs goes to the system resolver and neither
\* UpstreamIPs nor a dial through the transport enters resolve or the chain;
\* with a resolver set the system resolver is never called.
C14_StrategyFixed ==
  /\ (built /\ bInst = "b") =>
       /\ (bResolver = "nil") <=> (Len(cfg) = 0)
       /\ bResolver = "nil" => bootstraped = <<>>
  /\ (bInst = "b" /\ bResolver = "nil" /\ op.name \in {"UpstreamIPs", "dial"}) =>
       /\ stack = <<>>
       /\ calls.chain = 0
       /\ res.op # Panic
       /\ (op.name = "UpstreamIPs" /\ op.host \notin LiteralHosts) =>
            /\ lastUp.path = "system"
            /\ calls.sys = 1
       /\ op.name = "dial" => (~dial.hooked /\ dial.resolves = 0 /\ calls.sys = 0)
  /\ bResolver # "nil" => (calls.sys = 0 /\ lastUp.path # "system")

\* UpstreamIPs for a hostname on an Unconfigured Bootstrap asked the system
\* resolver once
C14_Witness ==
  /\ bInst = "b"
  /\ bResolver = "nil"
  /\ res.op = "UpstreamIPs"
  /\ op.host = "dns.example"
  /\ lastUp.path = "system"
  /\ calls = [chain |-> 0, sys |-> 1]

\* C15 (as claimed): once the caller of the dial hook or of an upstream lookup
\* has cancelled its context, no further query is issued through the chain or
\* the system resolver on behalf of that call.
C15_CancellationStopsQueries ==
  [][ctxDone => calls' = calls]_vars

\* C16: a dial through the hook resolves at most once and connects at most
\* once; an error of SplitHostPort or of resolve is returned as it is and
\* nothing is connected; otherwise the one connection goes to an address of
\* the resolved set, with the port of the address dialed.
C16_DialHook ==
  /\ Len(dial.conns) <= 1
  /\ dial.resolves <= 1
  /\ ~dial.done => dial.conns = <<>>
  /\ (res.op = "dial" /\ dial.hooked) =>
       /\ Len(dial.addr) # 3 =>
            /\ dial.resolves = 0
            /\ dial.conns = <<>>
            /\ res.isNil
            /\ res.err.kind = "missing port in address"
       /\ (Len(dial.addr) = 3 /\ dial.rErr # NilErr) =>
            /\ dial.resolves = 1
            /\ dial.conns = <<>>
            /\ res.isNil
            /\ res.err = dial.rErr
       /\ (Len(dial.addr) = 3 /\ dial.rErr = NilErr) =>
            /\ dial.resolves = 1
            /\ Len(dial.conns) = 1
            /\ \E k \in DOMAIN dial.rIps :
                 dial.conns[1] = <<dial.rIps[k], ":", dial.addr[3]>>

\* resolve handed addresses and an error to the hook: the dial failed with that
\* error and nothing was connected
C16_Witness ==
  /\ res.op = "dial"
  /\ dial.hooked
  /\ Len(dial.rIps) > 0
  /\ dial.rErr # NilErr
  /\ res.err = dial.rErr
  /\ dial.conns = <<>>

\* C17: the record types the dial hook asks for. With v4 (v6) configured only
\* A (AAAA), whatever the network string; with dual, A only for a network
\* ending in "4", AAAA only for one ending in "6", both for any other.
C17_RecordTypeSelection ==
  hookQTypes.set =>
    LET n == Len(network)
        last == IF n = 0 THEN "" ELSE network[n] IN
      /\ connectIPVersion = "v4" => hookQTypes.types = <<"A">>
      /\ connectIPVersion = "v6" => hookQTypes.types = <<"AAAA">>
      /\ (connectIPVersion = "dual" /\ last = "4") => hookQTypes.types = <<"A">>
      /\ (connectIPVersion = "dual" /\ last = "6") => hookQTypes.types = <<"AAAA">>
      /\ (connectIPVersion = "dual" /\ last \notin {"4", "6"}) =>
           hookQTypes.types = <<"A", "AAAA">>

\* v4 configured and a network ending in "6": A only
C17_Witness ==
  /\ hookQTypes.set
  /\ connectIPVersion = "v4"
  /\ network = <<"t", "6">>
  /\ hookQTypes.types = <<"A">>

\* C18: an entry with the default upstream is an error; a tcp+udp entry is
\* valid exactly if its host is an IP literal, and is registered with that one
\* address; an entry of another protocol is valid exactly if its IP list is
\* not empty, and is registered with that list. With every entry valid there
\* is one resolver instance per entry, equal entries included, each with a
\* non-empty address list.
C18_EntryValidation ==
  built =>
    /\ (InvalidItems # {}) <=> (nbErr.kind = "invalid bootstrapDns configuration")
    /\ (InvalidItems = {} /\ Len(cfg) > 0 /\ bInst = "b") => bResolver = "chain"
    /\ bResolver = "chain" =>
         /\ InvalidItems = {}
         /\ DOMAIN bootstraped = 1 .. Len(cfg)
         /\ \A i \in DOMAIN bootstraped :
              /\ Len(bootstraped[i]) > 0
              /\ bootstraped[i] = IF cfg[i].upstream.net = NetProtocolTcpUdp
                                    THEN <<LiteralIP(cfg[i].upstream.host)>>
                                    ELSE cfg[i].ips

\* two equal entries, two registered instances
C18_Witness ==
  /\ built
  /\ bResolver = "chain"
  /\ Len(cfg) = 2
  /\ cfg[1] = cfg[2]
  /\ cfg[1].upstream.net # NetProtocolTcpUdp
  /\ Cardinality(DOMAIN bootstraped) = 2
  /\ bootstraped[1] = <<"ip2", "ip3">>

\* the addresses of the A and AAAA records of an answer section, in order
AddrsOf(answer) ==
  LET sel == SelectSeq(answer, LAMBDA rr : rr.type \in {"A", "AAAA"}) IN
    [j \in 1 .. Len(sel) |-> sel[j].ip]

\* C20: for a hostname that is no literal, resolveType sends one query with
\* the one question (hostname, requested type) through the chain; a chain
\* error is returned as the error; a response with another rcode than success
\* gives no address and no error; a success response gives the addresses of
\* its A and AAAA records, in answer order, and nothing for other records.
C20_ResolveTypeMapping ==
  /\ \A k \in DOMAIN stack :
       stack[k].fn \in {"chain", "rt"} =>
         /\ k > 1
         /\ stack[k - 1].fn = "resolve"
         /\ stack[k].host = stack[k - 1].host
         /\ stack[k].host \notin LiteralHosts
         /\ stack[k].qTypes = <<stack[k - 1].qTypes[stack[k - 1].i]>>
  /\ \A k \in DOMAIN stack :
       stack[k].fn = "rt" =>
         LET f == stack[k]
             o == f.rsp IN
           /\ o.err # "" => (f.errs = <<o.err>> /\ f.ips = <<>>)
           /\ (o.err = "" /\ o.rcode # "NOERROR") => (f.errs = <<>> /\ f.ips = <<>>)
           /\ (o.err = "" /\ o.rcode = "NOERROR") =>
                (f.errs = <<>> /\ f.ips = AddrsOf(o.answer))
  /\ (res.op = "resolve" /\ lastUp = NoUp /\ op.host \notin LiteralHosts) =>
       /\ calls.chain = Len(op.qTypes)
       /\ Len(res.log) = Len(op.qTypes)

\* a success response with a CNAME and an A record: the A record's address only
C20_Witness ==
  /\ stack # <<>>
  /\ Top.fn = "rt"
  /\ Top.rsp.rcode = "NOERROR"
  /\ Top.rsp.answer = <<[type |-> "CNAME", ip |-> ""], [type |-> "A", ip |-> "ip4"]>>
  /\ Top.ips = <<"ip4">>
  /\ Top.errs = <<>>

\* ============================================== ConditionalUpstreamResolver

\* bounds of the conditional part
MaxNameLen == 5
MaxKeys == 2

\* Strings are sequences of characters.
Dot == "."

\* the characters of the generated question names
NameChars == {"a", "b", Dot}

\* strings.ToLower, per character
LowerCh(c) ==
  CASE c = "A" -> "a"
    [] c = "B" -> "b"
    [] OTHER -> c

\* strings.ToLower
ToLower(str) == [i \in 1 .. Len(str) |-> LowerCh(str[i])]

\* strings.TrimSuffix(str, ".")
TrimSuffixDot(str) ==
  IF Len(str) > 0 /\ str[Len(str)] = Dot THEN SubSeq(str, 1, Len(str) - 1) ELSE str

\* util.ExtractDomain(question): the lower-cased name without its trailing dot
ExtractDomain(name) == TrimSuffixDot(ToLower(name))

\* dns.IsFqdn / dns.Fqdn: the name with a trailing dot appended if it has none
Fqdn(str) ==
  IF Len(str) > 0 /\ str[Len(str)] = Dot THEN str ELSE Append(str, Dot)

\* strings.Contains(str, ".")
ContainsDot(str) == \E i \in 1 .. Len(str) : str[i] = Dot

\* strings.Index(str, "."), 0-based; only used where the string has a dot,
\* -1 otherwise
IndexDot(str) ==
  IF ContainsDot(str)
    THEN (CHOOSE i \in 1 .. Len(str) :
            str[i] = Dot /\ \A j \in 1 .. (i - 1) : str[j] # Dot) - 1
    ELSE 0 - 1

\* mutant: the loop strips one character instead of one label
StripLeftLabel_OneChar(domain) == SubSeq(domain, 2, Len(domain))

\* domain = domain[i+1:] with i = strings.Index(domain, ".")
StripLeftLabel(domain) == SubSeq(domain, IndexDot(domain) + 2, Len(domain))

\* no mapping entry matched
NoKey == <<>>

RootKey == <<Dot>>

\* for len(domain) > 0 { if found -> match; if has dot -> strip; else break }
RECURSIVE MatchLoop(_, _)
MatchLoop(m, domain) ==
  IF Len(domain) = 0 THEN NoKey
  ELSE IF domain \in DOMAIN m THEN domain
  ELSE IF IndexDot(domain) >= 0 THEN MatchLoop(m, StripLeftLabel(domain))
  ELSE NoKey

\* mutant: the root entry "." as a catch-all after the suffix loop
MatchKey_RootCatchAll(m, domain) ==
  IF ContainsDot(domain) /\ MatchLoop(m, domain) # NoKey THEN MatchLoop(m, domain)
  ELSE IF RootKey \in DOMAIN m THEN RootKey
  ELSE NoKey

\* processRequest: the mapping key whose sub-pipeline answers, or NoKey
MatchKey(m, domain) ==
  IF ContainsDot(domain) THEN MatchLoop(m, domain)
  ELSE IF RootKey \in DOMAIN m THEN RootKey
  ELSE NoKey

\* a DNS name as it arrives in a question: non-empty labels separated by dots,
\* with or without the trailing dot, or the root name "."
ValidName(str) ==
  /\ Len(str) > 0
  /\ \/ str = RootKey
     \/ /\ str[1] # Dot
        /\ \A i \in 1 .. (Len(str) - 1) : ~(str[i] = Dot /\ str[i + 1] = Dot)

\* the question names of the model: every valid name up to MaxNameLen over
\* NameChars, and two names with upper-case letters
QueryNames ==
  { str \in UNION { [1 .. n -> NameChars] : n \in 1 .. MaxNameLen } : ValidName(str) }
  \cup { <<"B", Dot, "a">>, <<"A", Dot, "B", Dot, "a", Dot>> }

\* the domains a configuration maps
CfgDomains ==
  { RootKey, <<"a">>, <<"b", Dot, "a">>, <<"B", Dot, "a">>,
    <<"a", Dot, "b", Dot, "a">>, <<"a", Dot, "b">> }

CondConfigs == { c \in SUBSET CfgDomains : Cardinality(c) <= MaxKeys }

\* NewConditionalUpstreamResolver: m[strings.ToLower(domain)] = r for every
\* configured domain, r a new sub-pipeline (identified by its configured
\* domain); two domains equal up to case share a key, and the one the map
\* iteration visits last stays
Mappings(c) ==
  { m \in [{ ToLower(d) : d \in c } -> c] : \A k \in DOMAIN m : ToLower(m[k]) = k }

\* what a collaborator's Resolve returns: an error (and a nil response), or a
\* response whose question section is empty, echoes the question it was asked,
\* or holds another name
CollabOutcomes ==
  { [err |-> "timeout", q |-> "none", reason |-> ""] }
  \cup { [err |-> "", q |-> q, reason |-> t] :
            q \in {"none", "echo", "other"}, t \in {"RESOLVED", "CACHED"} }

OtherName == <<"x", Dot>>

CollabResponse(o, asked) ==
  IF o.err # "" THEN NilResp
  ELSE [isNil |-> FALSE,
        question |-> CASE o.q = "none" -> <<>>
                       [] o.q = "echo" -> <<asked>>
                       [] OTHER -> <<OtherName>>,
        reason |-> o.reason, rtype |-> o.reason]

\* a variant that hands the sub-pipeline's response back as it came
internalResolve_NoTag(reso, doFQ, do, o) ==
  LET asked == Fqdn(doFQ) IN
    [reqName |-> asked,
     invoked |-> <<[kind |-> "sub", key |-> reso, name |-> asked]>>,
     resp |-> CollabResponse(o, asked),
     err |-> o.err]

\* internalResolve(reso, doFQ, do, req) with the sub-pipeline answering o:
\* the request's question name is overwritten with dns.Fqdn(doFQ), and on
\* success the response is tagged and its first question name set to the
\* request's (current) question name
internalResolve(reso, doFQ, do, o) ==
  LET asked == Fqdn(doFQ)
      response == CollabResponse(o, asked) IN
    [reqName |-> asked,
     invoked |-> <<[kind |-> "sub", key |-> reso, name |-> asked]>>,
     resp |-> IF o.err = ""
                THEN [response EXCEPT
                        !.reason = "CONDITIONAL",
                        !.rtype = "CONDITIONAL",
                        !.question = IF Len(@) > 0 THEN <<asked>> \o Tail(@) ELSE @]
                ELSE response,
     err |-> o.err]

\* a variant that falls back to the next link when the matched sub-pipeline
\* returned an error
ResolveCond_FallbackOnError(m, name, o) ==
  LET domainFromQuestion == ExtractDomain(name)
      key == IF Cardinality(DOMAIN m) > 0 THEN MatchKey(m, domainFromQuestion)
             ELSE NoKey
      sub == internalResolve(m[key], domainFromQuestion, key, o) IN
    IF key # NoKey /\ o.err = ""
      THEN [matched |-> key] @@ sub
      ELSE [matched |-> key,
            reqName |-> IF key # NoKey THEN sub.reqName ELSE name,
            invoked |-> (IF key # NoKey THEN sub.invoked ELSE <<>>)
                          \o <<[kind |-> "next", key |-> NoKey, name |-> name]>>,
            resp |-> CollabResponse(o, name),
            err |-> o.err]

\* Resolve(request): processRequest when the mapping is not empty, else (or
\* when nothing matched) r.next.Resolve(request)
ResolveCond(m, name, o) ==
  LET domainFromQuestion == ExtractDomain(name)
      key == IF Cardinality(DOMAIN m) > 0 THEN MatchKey(m, domainFromQuestion)
             ELSE NoKey IN
    IF key # NoKey
      THEN [matched |-> key] @@ internalResolve(m[key], domainFromQuestion, key, o)
      ELSE [matched |-> NoKey,
            reqName |-> name,
            invoked |-> <<[kind |-> "next", key |-> NoKey, name |-> name]>>,
            resp |-> CollabResponse(o, name),
            err |-> o.err]

InitCond ==
  /\ ccfg \in CondConfigs
  /\ cbuilt = FALSE
  /\ cInst = "nil"
  /\ mapping = <<>>
  /\ creq = <<>>
  /\ cres = NoCRes
  /\ IdleIPSet
  /\ IdleBoot
  /\ IdleDialQ

\* NewConditionalUpstreamResolver(cfg, bootstrap, shouldVerifyUpstreams);
\* pbOK: whether every NewParallelBestResolver call succeeded
NewConditionalUpstreamResolver ==
  /\ ~cbuilt
  /\ cbuilt' = TRUE
  /\ \E pbOK \in BOOLEAN :
       IF ccfg # {} /\ ~pbOK
         THEN cInst' = "nil" /\ mapping' = <<>>
         ELSE cInst' = "r" /\ mapping' \in Mappings(ccfg)
  /\ UNCHANGED <<ccfg, creq, cres>>
  /\ UNCHANGED <<ipsVars, bootVars, dqVars>>

\* the caller builds a request with the question name `name`.  The resolver
\* keeps no state between requests (its mapping is read-only), so a behaviour
\* follows one request.
NewRequest(name) ==
  /\ cbuilt /\ cInst = "r"
  /\ creq = <<>> /\ ~cres.called
  /\ creq' = name
  /\ UNCHANGED <<ccfg, cbuilt, cInst, mapping, cres>>
  /\ UNCHANGED <<ipsVars, bootVars, dqVars>>

\* r.Resolve(request), the collaborator it calls answering o
Resolve(o) ==
  /\ cbuilt /\ cInst = "r"
  /\ creq # <<>> /\ ~cres.called
  /\ LET r == ResolveCond(mapping, creq, o) IN
       /\ creq' = r.reqName
       /\ cres' = [called |-> TRUE, name |-> creq, matched |-> r.matched,
                   invoked |-> r.invoked, resp |-> r.resp, err |-> r.err,
                   out |-> o]
  /\ UNCHANGED <<ccfg, cbuilt, cInst, mapping>>
  /\ UNCHANGED <<ipsVars, bootVars, dqVars>>

NextCond ==
  \/ NewConditionalUpstreamResolver
  \/ \E name \in QueryNames : NewRequest(name)
  \/ \E o \in CollabOutcomes : Resolve(o)

SpecCond == InitCond /\ [][NextCond]_vars

\* ------------------------------------------------------------- claims C7-C10

\* C7 (as claimed): the response of a matched query whose question name is N
\* carries Question[0].Name = N, although the sub-pipeline was asked the
\* fully-qualified form of N.
C7_QuestionNameRoundTrip ==
  (cres.called /\ cres.matched # NoKey /\ cres.err = ""
     /\ Len(cres.resp.question) > 0)
    => cres.resp.question[1] = cres.name

\* C8 (as claimed): after Resolve returns, on the success and on the error path
\* of the sub-pipeline alike, the caller's request has the question name it had
\* before the call.
C8_RequestNameRestored ==
  cres.called => creq = cres.name

\* the label-aligned suffixes of a domain: the domain itself and what follows
\* each of its dots
LabelSuffixes(d) ==
  { SubSeq(d, i, Len(d)) :
      i \in {1} \cup { k + 1 : k \in { j \in 1 .. Len(d) : d[j] = Dot } } }

\* the mapping keys among the label-aligned suffixes of the query's domain
SuffixKeys == LabelSuffixes(ExtractDomain(cres.name)) \cap DOMAIN mapping

\* C9: for a query domain with a dot, the sub-pipeline chosen is the one
\* registered for the longest label-aligned suffix of the domain that is a key
\* of the mapping; other string suffixes never match.
C9_MostSpecificSuffix ==
  (cres.called /\ ContainsDot(ExtractDomain(cres.name))) =>
    IF SuffixKeys = {}
      THEN cres.matched = NoKey
      ELSE /\ cres.matched \in SuffixKeys
           /\ \A k \in SuffixKeys : Len(k) <= Len(cres.matched)
           /\ Len(cres.invoked) = 1
           /\ cres.invoked[1].kind = "sub"
           /\ cres.invoked[1].key = mapping[cres.matched]

\* C9 witness: with the keys "b.a" and "a" mapped, the query "a.b.a" was routed
\* to the sub-pipeline of "b.a".
C9_Witness ==
  /\ cres.called
  /\ cres.name = <<"a", Dot, "b", Dot, "a">>
  /\ DOMAIN mapping = { <<"b", Dot, "a">>, <<"a">> }
  /\ cres.matched = <<"b", Dot, "a">>

\* C10: the root entry "." is matched by dot-free queries only: a dot-free
\* query goes to the "." sub-pipeline if there is one and to no other entry; a
\* query with a dot and no label-aligned suffix in the mapping goes to the
\* next link, also when "." is mapped.
C10_RootEntryOnlyDotFree ==
  cres.called =>
    LET d == ExtractDomain(cres.name) IN
      /\ ~ContainsDot(d) =>
           IF RootKey \in DOMAIN mapping
             THEN /\ cres.matched = RootKey
                  /\ cres.invoked[1].kind = "sub"
                  /\ cres.invoked[1].key = mapping[RootKey]
             ELSE /\ cres.matched = NoKey
                  /\ cres.invoked[1].kind = "next"
      /\ ContainsDot(d) => cres.matched # RootKey
      /\ (ContainsDot(d) /\ SuffixKeys = {}) =>
           /\ cres.matched = NoKey
           /\ cres.invoked = <<[kind |-> "next", key |-> NoKey, name |-> cres.name]>>

\* C10 witness: "." is mapped, the query "b.b" has a dot and no suffix in the
\* mapping, and the call went to the next link.
C10_Witness ==
  /\ cres.called
  /\ RootKey \in DOMAIN mapping
  /\ cres.name = <<"b", Dot, "b">>
  /\ cres.matched = NoKey
  /\ cres.invoked[1].kind = "next"

\* C11: a Resolve call invokes exactly one downstream resolver exactly once.
\* On a match it is the sub-pipeline registered for the matched key and no
\* next link, and the call returns that sub-pipeline's error (a nil response
\* with it) or its response; without a match, or with an empty mapping, it
\* is the next link only, asked the unchanged question, and the call returns
\* what the next link returned, unmodified.
C11_ExactlyOneDownstream ==
  cres.called =>
    /\ Len(cres.invoked) = 1
    /\ cres.err = cres.out.err
    /\ cres.resp.isNil = (cres.out.err # "")
    /\ cres.matched # NoKey =>
         /\ cres.matched \in DOMAIN mapping
         /\ cres.invoked[1].kind = "sub"
         /\ cres.invoked[1].key = mapping[cres.matched]
    /\ cres.matched = NoKey =>
         /\ cres.invoked[1] = [kind |-> "next", key |-> NoKey, name |-> cres.name]
         /\ creq = cres.name
         /\ cres.resp = CollabResponse(cres.out, cres.name)

\* a matched query whose sub-pipeline failed: one call, to the sub-pipeline
C11_Witness ==
  /\ cres.called
  /\ cres.matched # NoKey
  /\ cres.out.err # ""
  /\ cres.err = cres.out.err
  /\ Len(cres.invoked) = 1
  /\ cres.invoked[1].kind = "sub"

\* C19: a response the matched sub-pipeline returned without error leaves
\* Resolve with reason "CONDITIONAL" and response type CONDITIONAL, whatever
\* the sub-pipeline had set; a response of the next link keeps the reason and
\* the response type the next link produced.
C19_ProvenanceTag ==
  (cres.called /\ cres.err = "") =>
    /\ cres.matched # NoKey =>
         cres.resp.reason = "CONDITIONAL" /\ cres.resp.rtype = "CONDITIONAL"
    /\ cres.matched = NoKey =>
         cres.resp.reason = cres.out.reason /\ cres.resp.rtype = cres.out.reason

\* a matched query whose sub-pipeline answered with its own tags
C19_Witness ==
  /\ cres.called
  /\ cres.matched # NoKey
  /\ cres.err = ""
  /\ cres.out.reason = "CACHED"
  /\ cres.resp.reason = "CONDITIONAL"

====
